---- MODULE Spec2Model ----
(***************************************************************************)
(* A model of the `trace` RPC namespace of reth                            *)
(* (crates/rpc/rpc/src/trace.rs): the permit gate, the reward calculator,  *)
(* trace_filter, trace_block, trace_get / trace_transaction,               *)
(* replay_transaction, the opcode gas methods, trace_call,                 *)
(* trace_raw_transaction and trace_call_many.                              *)
(*                                                                         *)
(* Option<T> is a sequence of length 0 (None) or 1 (Some(x)); Result is    *)
(* <<"Ok", v>> or <<"Err", e>>.                                            *)
(***************************************************************************)
EXTENDS Integers, Sequences, FiniteSets, TLC

(***************************************************************************)
(* Bounds of the model.  Block numbers are scaled down: the hardfork       *)
(* blocks keep their order (Byzantium < Constantinople < Paris) but not    *)
(* their mainnet values.                                                   *)
(***************************************************************************)
MaxLatest == 4
MaxAfter == 3
MaxCount == 2
max_trace_filter_blocks == 1
ByzantiumBlock == 1
ConstantinopleBlock == 2
MainnetParisBlock == 4
SepoliaParisBlock == 2

None == <<>>
Some(x) == <<x>>
Opt(S) == {None} \cup {Some(x) : x \in S}
is_some(o) == Len(o) = 1
unwrap_or(o, d) == IF o = None THEN d ELSE o[1]

Ok(v) == <<"Ok", v>>
Err(e) == <<"Err", e>>
is_ok(r) == r[1] = "Ok"

Min(a, b) == IF a < b THEN a ELSE b
Max(a, b) == IF a < b THEN b ELSE a

RECURSIVE Concat(_)
Concat(ss) == IF ss = <<>> THEN <<>> ELSE Head(ss) \o Concat(Tail(ss))

\* The errors of EthApiError the tracing code returns, and a collaborator's error.
HeaderNotFound == [kind |-> "HeaderNotFound", msg |-> "start"]
InvalidParamsFromGtTo ==
  [kind |-> "InvalidParams",
   msg |-> "invalid parameters: fromBlock cannot be greater than toBlock"]
InvalidParamsRangeTooLarge ==
  [kind |-> "InvalidParams",
   msg |-> "Block range too large; currently limited to 100 blocks"]
TransactionNotFound == [kind |-> "TransactionNotFound", msg |-> "hash"]
Internal(what) == [kind |-> "Internal", msg |-> what]

(***************************************************************************)
(* The chain the node holds: a fixture.  Block n exists iff n <= latest.   *)
(***************************************************************************)
Chains == {"mainnet", "sepolia", "other"}
Address == {"A", "B", "C"}
AddrOf(k) == CASE k % 3 = 0 -> "A" [] k % 3 = 1 -> "B" [] OTHER -> "C"

BlockHash(n) == <<"block", n>>
TxHash(n, j) == <<"tx", n, j>>
UnknownHash == <<"tx", 99, 99>>

\* header.beneficiary()
Beneficiary(n) == AddrOf(n + 1)
\* block.body().ommers(): None for a body without ommers, else the ommer headers
OmmersOf(n) ==
  CASE n % 4 = 0 -> Some(<<>>)
    [] n % 4 = 1 -> Some(<<[number |-> n - 1, beneficiary |-> "C"]>>)
    [] n % 4 = 2 -> Some(<<[number |-> n - 1, beneficiary |-> "A"],
                           [number |-> n - 2, beneficiary |-> "B"]>>)
    [] OTHER -> None
Header(n) == [number |-> n, hash |-> BlockHash(n), beneficiary |-> Beneficiary(n)]
\* number of transactions of block n, and of frames of the call tree of its j-th one
NumTxs(n) == IF n = 0 THEN 0 ELSE 1 + ((n + 1) % 2)
NumFrames(n, j) == 1 + ((n + j) % 2)

(***************************************************************************)
(* State.                                                                  *)
(***************************************************************************)
VARIABLES
  chain,          \* chain_spec.chain() of the node
  latest,         \* provider.best_block_number()
  fpc,            \* trace_filter: "idle", "joining" (at try_join_all), "done"
  filter,         \* trace_filter: the TraceFilter of the request
  blocks,         \* trace_filter: the numbers of the blocks fetched for the range
  job_outputs,    \* trace_filter: the jobs that completed with their outputs, oldest first
  block_traces,   \* trace_filter: per block, the traces try_join_all returned
  collected_traces, \* trace_filter: the traces collected, before `after` and `count`
  filter_result,  \* trace_filter: None or Some(Result) returned to the caller
  blocks_loaded,  \* trace_filter: calls of recovered_block_range made
  jobs_spawned,   \* trace_filter: trace_block_until jobs created
  bpc,            \* trace_block: "idle", "joining" (at try_join!), "done"
  block_id,       \* trace_block: the BlockId of the request
  traces_fut,     \* trace_block: None (pending) or Some(Result) of trace_block_with
  block_fut,      \* trace_block: None (pending) or Some(Result) of recovered_block
  base_reward,    \* trace_block: None or Some(what calculate_base_block_reward gave)
  block_result,   \* trace_block: None or Some(Result) returned to the caller
  gpc,            \* trace_get / trace_transaction: "idle", "done"
  get_method,     \* the method called: "trace_get" or "trace_transaction"
  get_hash,       \* its transaction hash
  get_indices,    \* trace_get: its indices
  get_result,     \* None or Some(Result) returned to the caller
  tx_lookups,     \* calls of spawn_trace_transaction_in_block made
  mpc,            \* trace_call_many: "idle", "running" (in the loop), "done"
  many_input,     \* trace_call_many: the calls of the request
  base_state,     \* trace_call_many: the state at the chosen block
  calls,          \* trace_call_many: the calls the iterator still holds
  db,             \* trace_call_many: the CacheDB overlay (its cached slots)
  results,        \* trace_call_many: the results pushed so far
  exec_pre,       \* trace_call_many: per executed call, the state it ran against
  commits,        \* trace_call_many: calls of db.commit made
  many_log,       \* trace_call_many: what the loop did, in order: <<what, index of the call>>
  many_result,    \* trace_call_many: None or Some(Result) returned to the caller
  hpc,            \* per client: "idle", "acquiring", "working" (in the handler's call)
  method,         \* per client: the RPC method it has in flight
  permit,         \* per client: whether its handler holds an OwnedSemaphorePermit
  available,      \* the permits blocking_task_guard has left
  waiters,        \* the clients waiting in acquire_owned, oldest first
  waited,         \* per client: whether no permit was free when its handler started
  outcome,        \* how the call that returned last ended, and with a permit or not
  opc,            \* opcode gas: "idle", "once", "twice" (calls of the request made)
  opcode_call,    \* opcode gas: the request, made twice
  opcode_first,   \* opcode gas: None or Some(Result) the first call returned
  opcode_second,  \* opcode gas: None or Some(Result) the second call returned
  inspector_left, \* opcode gas: the counts in the inspector the last call dropped
  cpc,            \* trace_call: "idle", "done"
  call_request,   \* trace_call: the call of the request
  call_overlay,   \* trace_call: what the overlay of trace_call_many held when it ran
  call_result,    \* trace_call: None or Some(Result) returned to the caller
  rpc,            \* trace_raw_transaction: "idle", "env" (at evm_env_at), "spawned", "done"
  raw_tx,         \* trace_raw_transaction: the raw bytes of the request
  raw_types,      \* trace_raw_transaction: the trace types of the request
  raw_block_id,   \* trace_raw_transaction: the Option<BlockId> of the request
  raw_recovered,  \* trace_raw_transaction: None or Some(the recovered transaction)
  raw_env_calls,  \* trace_raw_transaction: calls of evm_env_at made
  raw_executions, \* trace_raw_transaction: calls of spawn_trace_at_with_state made
  raw_result,     \* trace_raw_transaction: None or Some(Result) returned to the caller
  wpc,            \* extract_reward_traces: "idle", "done"
  reward_header,  \* extract_reward_traces: the header it was called with
  reward_ommers,  \* extract_reward_traces: the ommers it was called with
  reward_base,    \* extract_reward_traces: the base block reward it was called with
  reward_traces   \* extract_reward_traces: the traces it returned

worldVars == <<chain, latest>>
filterVars ==
  <<fpc, filter, blocks, job_outputs, block_traces, collected_traces, filter_result,
    blocks_loaded, jobs_spawned>>
blockVars == <<bpc, block_id, traces_fut, block_fut, base_reward, block_result>>
getVars == <<gpc, get_method, get_hash, get_indices, get_result, tx_lookups>>
manyVars ==
  <<mpc, many_input, base_state, calls, db, results, exec_pre, commits, many_log,
    many_result>>
permitVars == <<hpc, method, permit, available, waiters, waited, outcome>>
opcodeVars == <<opc, opcode_call, opcode_first, opcode_second, inspector_left>>
callVars == <<cpc, call_request, call_overlay, call_result>>
rawVars ==
  <<rpc, raw_tx, raw_types, raw_block_id, raw_recovered, raw_env_calls, raw_executions,
    raw_result>>
rewardVars == <<wpc, reward_header, reward_ommers, reward_base, reward_traces>>
vars ==
  <<worldVars, filterVars, blockVars, getVars, manyVars, permitVars, opcodeVars, callVars,
    rawVars, rewardVars>>

\* what the actions of one operation leave alone
filterFrame ==
  <<worldVars, blockVars, getVars, manyVars, permitVars, opcodeVars, callVars,
    rawVars, rewardVars>>
blockFrame ==
  <<worldVars, filterVars, getVars, manyVars, permitVars, opcodeVars, callVars,
    rawVars, rewardVars>>
getFrame ==
  <<worldVars, filterVars, blockVars, manyVars, permitVars, opcodeVars, callVars,
    rawVars, rewardVars>>
manyFrame ==
  <<worldVars, filterVars, blockVars, getVars, permitVars, opcodeVars, callVars,
    rawVars, rewardVars>>
permitFrame ==
  <<worldVars, filterVars, blockVars, getVars, manyVars, opcodeVars, callVars,
    rawVars, rewardVars>>
opcodeFrame ==
  <<worldVars, filterVars, blockVars, getVars, manyVars, permitVars, callVars,
    rawVars, rewardVars>>
callFrame ==
  <<worldVars, filterVars, blockVars, getVars, permitVars, opcodeVars, rawVars, rewardVars>>
rawFrame ==
  <<worldVars, filterVars, blockVars, getVars, manyVars, permitVars, opcodeVars, callVars,
    rewardVars>>
rewardFrame ==
  <<worldVars, filterVars, blockVars, getVars, manyVars, permitVars, opcodeVars, callVars,
    rawVars>>

(***************************************************************************)
(* The inspector's output for a transaction, in Parity shape.              *)
(***************************************************************************)
\* frame i (depth-first order) of transaction j of block n, localized
LocalizedTrace(n, j, i) ==
  [block_hash |-> Some(BlockHash(n)),
   block_number |-> Some(n),
   transaction_hash |-> Some(TxHash(n, j)),
   transaction_position |-> Some(j),
   trace |-> [trace_address |-> IF i = 0 THEN <<>> ELSE <<i - 1>>,
              subtraces |-> IF i = 0 THEN NumFrames(n, j) - 1 ELSE 0,
              action |-> [type |-> "call",
                          from |-> AddrOf(n + j + i),
                          to |-> AddrOf(n + 2 * j + i + 1)],
              error |-> None,
              result |-> Some("output")]]

into_localized_transaction_traces(n, j) ==
  [i \in 1..NumFrames(n, j) |-> LocalizedTrace(n, j, i - 1)]

(***************************************************************************)
(* Reward calculator.                                                      *)
(***************************************************************************)
\* Amounts are counted in units of 1/256 ether, a whole number of wei, so the
\* base rewards keep their divisibility by 32 and by 8.  u128 arithmetic wraps:
\* the model wraps at U128Wrap units, which is narrower than u128, so what does
\* not wrap here does not wrap there.
WeiPerEth == 32 * 8
U128Wrap == 2^30

\* alloy_evm::block::calc, as called at trace.rs:303, 318 and 331
base_block_reward_pre_merge(chain_id, number) ==
  IF chain_id = "sepolia" \/ number >= ConstantinopleBlock THEN 2 * WeiPerEth
  ELSE IF number >= ByzantiumBlock THEN 3 * WeiPerEth
  ELSE 5 * WeiPerEth
block_reward(base_block_reward, ommers_cnt) ==
  (base_block_reward + (((base_block_reward \div 32) * ommers_cnt) % U128Wrap)) % U128Wrap
ommer_reward(base_block_reward, block_number, ommer_number) ==
  (((8 + ommer_number - block_number) * base_block_reward) % U128Wrap) \div 8

\* is_paris_activated with > for >=: the activation block itself still rewarded
is_paris_activated_after(chain_id, number) ==
  IF chain_id = "mainnet" THEN number > MainnetParisBlock
  ELSE IF chain_id = "sepolia" THEN number > SepoliaParisBlock
  ELSE TRUE

\* Some(header.number()) >= EthereumHardfork::Paris.<chain>_activation_block()
is_paris_activated(chain_id, number) ==
  IF chain_id = "mainnet" THEN number >= MainnetParisBlock
  ELSE IF chain_id = "sepolia" THEN number >= SepoliaParisBlock
  ELSE TRUE

calculate_base_block_reward(chain_id, header) ==
  IF is_paris_activated(chain_id, header.number)
  THEN None
  ELSE Some(base_block_reward_pre_merge(chain_id, header.number))

reward_trace(header, reward) ==
  [block_hash |-> Some(header.hash),
   block_number |-> Some(header.number),
   transaction_hash |-> None,
   transaction_position |-> None,
   trace |-> [trace_address |-> <<>>,
              subtraces |-> 0,
              action |-> [type |-> "reward",
                          author |-> reward.author,
                          reward_type |-> reward.reward_type,
                          value |-> reward.value],
              error |-> None,
              result |-> None]]

\* extract_reward_traces returning after the block reward, whatever the ommers
extract_reward_traces_no_ommers(header, ommers, base_block_reward) ==
  LET ommers_cnt == IF ommers = None THEN 0 ELSE Len(ommers[1])
  IN <<reward_trace(header,
         [author |-> header.beneficiary,
          reward_type |-> "Block",
          value |-> block_reward(base_block_reward, ommers_cnt)])>>

\* extract_reward_traces pushing the block reward after the uncle rewards
extract_reward_traces_uncles_first(header, ommers, base_block_reward) ==
  LET ommers_cnt == IF ommers = None THEN 0 ELSE Len(ommers[1])
      first == reward_trace(header,
                 [author |-> header.beneficiary,
                  reward_type |-> "Block",
                  value |-> block_reward(base_block_reward, ommers_cnt)])
  IN IF ommers = None THEN <<first>>
     ELSE [u \in 1..ommers_cnt |->
             reward_trace(header,
               [author |-> ommers[1][u].beneficiary,
                reward_type |-> "Uncle",
                value |-> ommer_reward(base_block_reward, header.number,
                                       ommers[1][u].number)])]
          \o <<first>>

\* extract_reward_traces giving ommer_reward the two block numbers swapped
extract_reward_traces_swapped_numbers(header, ommers, base_block_reward) ==
  LET ommers_cnt == IF ommers = None THEN 0 ELSE Len(ommers[1])
      first == reward_trace(header,
                 [author |-> header.beneficiary,
                  reward_type |-> "Block",
                  value |-> block_reward(base_block_reward, ommers_cnt)])
  IN IF ommers = None THEN <<first>>
     ELSE <<first>> \o
          [u \in 1..ommers_cnt |->
             reward_trace(header,
               [author |-> ommers[1][u].beneficiary,
                reward_type |-> "Uncle",
                value |-> ommer_reward(base_block_reward, ommers[1][u].number,
                                       header.number)])]

extract_reward_traces(header, ommers, base_block_reward) ==
  LET ommers_cnt == IF ommers = None THEN 0 ELSE Len(ommers[1])
      first == reward_trace(header,
                 [author |-> header.beneficiary,
                  reward_type |-> "Block",
                  value |-> block_reward(base_block_reward, ommers_cnt)])
  IN IF ommers = None THEN <<first>>
     ELSE <<first>> \o
          [u \in 1..ommers_cnt |->
             reward_trace(header,
               [author |-> ommers[1][u].beneficiary,
                reward_type |-> "Uncle",
                value |-> ommer_reward(base_block_reward, header.number,
                                       ommers[1][u].number)])]

\* extract_reward_traces called on its own: a header, its ommers (each at most
\* MaxOmmerDepth blocks older than the header) and a base block reward of a chain
MaxRewardBlock == 7
MaxOmmers == 2
MaxOmmerDepth == 6
BaseRewards ==
  {base_block_reward_pre_merge(c, n) : c \in {"mainnet", "sepolia"}, n \in 0..MaxLatest}
OmmerHeaders(n) ==
  [number : {m \in 0..MaxRewardBlock : m < n /\ n - m <= MaxOmmerDepth},
   beneficiary : Address]
OmmerLists(n) ==
  {None} \cup {Some(l) : l \in UNION {[1..len -> OmmerHeaders(n)] : len \in 0..MaxOmmers}}

RewardIdle ==
  /\ wpc = "idle"
  /\ reward_header = Header(0)
  /\ reward_ommers = None
  /\ reward_base = 0
  /\ reward_traces = <<>>

ExtractRewardTraces ==
  /\ wpc = "idle"
  /\ \E n \in 0..MaxRewardBlock, b \in Address, base \in BaseRewards :
       \E ommers \in OmmerLists(n) :
         LET header == [number |-> n, hash |-> BlockHash(n), beneficiary |-> b]
         IN /\ reward_header' = header
            /\ reward_ommers' = ommers
            /\ reward_base' = base
            /\ reward_traces' = extract_reward_traces(header, ommers, base)
  /\ wpc' = "done"
  /\ UNCHANGED rewardFrame

(***************************************************************************)
(* The permit gate and the RPC handlers (impl TraceApiServer).             *)
(***************************************************************************)
NumClients == 2
max_concurrent_tracing_calls == 1
Clients == 1..NumClients

Methods ==
  {"trace_call", "trace_callMany", "trace_rawTransaction",
   "trace_replayBlockTransactions", "trace_replayTransaction", "trace_block",
   "trace_filter", "trace_get", "trace_transaction", "trace_transactionOpcodeGas",
   "trace_blockOpcodeGas"}

\* whether the handler of the method starts with
\* `let _permit = self.acquire_trace_permit().await;`
acquires_permit(m) == m # "trace_filter"

PermitIdle ==
  /\ hpc = [c \in Clients |-> "idle"]
  /\ method = [c \in Clients |-> "none"]
  /\ permit = [c \in Clients |-> FALSE]
  /\ available = max_concurrent_tracing_calls
  /\ waiters = <<>>
  /\ waited = [c \in Clients |-> FALSE]
  /\ outcome = None

\* a client calls one of the methods `ms`: its handler starts
HandlerCallOf(c, ms) ==
  /\ hpc[c] = "idle"
  /\ \E m \in ms :
       /\ method' = [method EXCEPT ![c] = m]
       /\ IF acquires_permit(m)
          THEN /\ hpc' = [hpc EXCEPT ![c] = "acquiring"]
               /\ waiters' = Append(waiters, c)
               /\ waited' = [waited EXCEPT ![c] = (available = 0)]
          ELSE /\ hpc' = [hpc EXCEPT ![c] = "working"]
               /\ waited' = [waited EXCEPT ![c] = FALSE]
               /\ UNCHANGED waiters
  /\ UNCHANGED <<permit, available, outcome>>
  /\ UNCHANGED permitFrame

HandlerCall(c) == HandlerCallOf(c, Methods)

\* a semaphore that wakes any of its waiters, not the oldest
wakes_any(ws, c) == \E i \in 1..Len(ws) : ws[i] = c

\* tokio's Semaphore is fair: the permit goes to the oldest waiter
wakes(ws, c) == ws # <<>> /\ Head(ws) = c

\* blocking_task_guard.clone().acquire_owned().await resolves for a waiter
acquire_trace_permit(c) ==
  /\ hpc[c] = "acquiring"
  /\ wakes(waiters, c)
  /\ available > 0
  /\ available' = available - 1
  /\ waiters' = SelectSeq(waiters, LAMBDA w : w # c)
  /\ permit' = [permit EXCEPT ![c] = TRUE]
  /\ hpc' = [hpc EXCEPT ![c] = "working"]
  /\ UNCHANGED <<method, waited, outcome>>
  /\ UNCHANGED permitFrame

\* a handler that gives its permit back only when its call did not fail
released_unless_error(held, how) == IF held /\ how # "error" THEN 1 ELSE 0

\* the permits the drop of `_permit` gives back at the end of the handler's
\* scope, however the call ended
released(held, how) == IF held THEN 1 ELSE 0

Outcomes == {"value", "null", "error"}

\* the handler's call returns (a value, None or an error): _permit is dropped
HandlerReturn(c) ==
  /\ hpc[c] = "working"
  /\ \E how \in Outcomes :
       /\ outcome' = <<how, permit[c]>>
       /\ available' = available + released(permit[c], how)
  /\ hpc' = [hpc EXCEPT ![c] = "idle"]
  /\ permit' = [permit EXCEPT ![c] = FALSE]
  /\ method' = [method EXCEPT ![c] = "none"]
  /\ waited' = [waited EXCEPT ![c] = FALSE]
  /\ UNCHANGED waiters
  /\ UNCHANGED permitFrame

(***************************************************************************)
(* Block identifiers.  The chain does not change while a request runs.     *)
(***************************************************************************)
BlockIds == {[tag |-> "number", number |-> n] : n \in 0..(MaxLatest + 1)}
            \cup {[tag |-> "latest", number |-> 0]}
\* the number of the block an identifier names, None for an unknown block
resolve(id) ==
  IF id.tag = "latest" THEN Some(latest)
  ELSE IF id.number <= latest THEN Some(id.number)
  ELSE None

(***************************************************************************)
(* trace_block.                                                            *)
(***************************************************************************)
BlockIdle ==
  /\ bpc = "idle"
  /\ block_id = [tag |-> "latest", number |-> 0]
  /\ traces_fut = None
  /\ block_fut = None
  /\ base_reward = None
  /\ block_result = None

\* eth_api().trace_block_with(block_id, ..): per transaction, its localized traces
trace_block_with(id) ==
  IF resolve(id) = None THEN None
  ELSE Some([j \in 1..NumTxs(resolve(id)[1]) |->
               into_localized_transaction_traces(resolve(id)[1], j - 1)])

\* eth_api().recovered_block(block_id)
recovered_block(id) == resolve(id)

\* trace_block creates both futures and awaits them with try_join!
TraceBlockStart ==
  /\ bpc = "idle"
  /\ \E id \in BlockIds :
       /\ block_id' = id
       /\ bpc' = "joining"
       /\ UNCHANGED <<traces_fut, block_fut, base_reward, block_result>>
       /\ UNCHANGED blockFrame

\* the trace_block_with future resolves
TraceBlockTraces ==
  /\ bpc = "joining"
  /\ traces_fut = None
  /\ \E ok \in BOOLEAN :
       IF ok
       THEN /\ traces_fut' = Some(Ok(trace_block_with(block_id)))
            /\ UNCHANGED <<bpc, block_result>>
       ELSE /\ traces_fut' = Some(Err(Internal("trace_block_with")))
            /\ bpc' = "done"
            /\ block_result' = Some(Err(Internal("trace_block_with")))
  /\ UNCHANGED <<block_id, block_fut, base_reward>>
  /\ UNCHANGED blockFrame

\* the recovered_block future resolves
TraceBlockLookup ==
  /\ bpc = "joining"
  /\ block_fut = None
  /\ \E ok \in BOOLEAN :
       IF ok
       THEN /\ block_fut' = Some(Ok(recovered_block(block_id)))
            /\ UNCHANGED <<bpc, block_result>>
       ELSE /\ block_fut' = Some(Err(Internal("recovered_block")))
            /\ bpc' = "done"
            /\ block_result' = Some(Err(Internal("recovered_block")))
  /\ UNCHANGED <<block_id, traces_fut, base_reward>>
  /\ UNCHANGED blockFrame

\* trace_block after try_join!: flatten, and add the reward traces of the block
trace_block_finish(maybe_traces, maybe_block) ==
  LET flat == IF maybe_traces = None THEN None ELSE Some(Concat(maybe_traces[1]))
  IN IF maybe_block # None /\ flat # None
     THEN LET base == calculate_base_block_reward(chain, Header(maybe_block[1]))
          IN IF is_some(base)
             THEN Some(flat[1] \o extract_reward_traces(Header(maybe_block[1]),
                                                       OmmersOf(maybe_block[1]), base[1]))
             ELSE flat
     ELSE flat

TraceBlockFinish ==
  /\ bpc = "joining"
  /\ traces_fut # None
  /\ block_fut # None
  /\ bpc' = "done"
  /\ block_result' = Some(Ok(trace_block_finish(traces_fut[1][2], block_fut[1][2])))
  /\ base_reward' = IF traces_fut[1][2] # None /\ block_fut[1][2] # None
                    THEN Some(calculate_base_block_reward(chain, Header(block_fut[1][2][1])))
                    ELSE None
  /\ UNCHANGED <<block_id, traces_fut, block_fut>>
  /\ UNCHANGED blockFrame

(***************************************************************************)
(* trace_transaction, trace_get_index, trace_get.                          *)
(***************************************************************************)
MaxIndex == 2
MaxIndices == 2

\* the hashes a request may carry: of the transactions of the chain, of
\* transactions of blocks the chain does not hold yet, and one of no transaction
Hashes ==
  {TxHash(n, j) : n \in 0..(MaxLatest + 1), j \in 0..1} \cup {UnknownHash}
\* the transaction index: the block and position of a hash, None when unknown
locate_tx(hash) ==
  IF \E n \in 0..latest : \E j \in 0..(NumTxs(n) - 1) : TxHash(n, j) = hash
  THEN Some(CHOOSE p \in (0..latest) \X (0..1) :
              p[2] < NumTxs(p[1]) /\ TxHash(p[1], p[2]) = hash)
  ELSE None

IndexLists ==
  UNION {[1..len -> 0..MaxIndex] : len \in 0..MaxIndices}

GetIdle ==
  /\ gpc = "idle"
  /\ get_method = "none"
  /\ get_hash = UnknownHash
  /\ get_indices = <<>>
  /\ get_result = None
  /\ tx_lookups = 0

\* Iterator::nth on a 1-based sequence with 0-based position n, as 1-based
nth_one_based(seq, n) == IF 0 < n /\ n <= Len(seq) THEN Some(seq[n]) ELSE None

\* traces.into_iter().nth(index)
nth(seq, n) == IF n < Len(seq) THEN Some(seq[n + 1]) ELSE None

\* trace_transaction returning the top-level frame of the transaction only
trace_transaction_root_only(hash, found) ==
  IF ~found THEN Err(Internal("spawn_trace_transaction_in_block"))
  ELSE IF locate_tx(hash) = None THEN Ok(None)
  ELSE Ok(Some(SubSeq(into_localized_transaction_traces(locate_tx(hash)[1][1],
                                                        locate_tx(hash)[1][2]), 1, 1)))

\* trace_transaction: `found` is whether spawn_trace_transaction_in_block
\* could look the transaction up and run it (false: a collaborator's error)
trace_transaction(hash, found) ==
  IF ~found THEN Err(Internal("spawn_trace_transaction_in_block"))
  ELSE IF locate_tx(hash) = None THEN Ok(None)
  ELSE Ok(Some(into_localized_transaction_traces(locate_tx(hash)[1][1],
                                                 locate_tx(hash)[1][2])))

trace_get_index(hash, index, found) ==
  LET traces == trace_transaction(hash, found)
  IN IF ~is_ok(traces) THEN traces
     ELSE IF traces[2] = None THEN Ok(None)
     ELSE Ok(nth(traces[2][1], index))

\* trace_get taking the first index whenever there is one
trace_get_first_index(hash, indices, found) ==
  IF Len(indices) = 0
  THEN [result |-> Ok(None), lookups |-> 0]
  ELSE [result |-> trace_get_index(hash, indices[1], found), lookups |-> 1]

\* trace_get: its result, and the number of transaction lookups it made
trace_get(hash, indices, found) ==
  IF Len(indices) # 1
  THEN [result |-> Ok(None), lookups |-> 0]
  ELSE [result |-> trace_get_index(hash, indices[1], found), lookups |-> 1]

TraceGet ==
  /\ gpc = "idle"
  /\ \E hash \in Hashes, indices \in IndexLists, found \in BOOLEAN :
       /\ gpc' = "done"
       /\ get_method' = "trace_get"
       /\ get_hash' = hash
       /\ get_indices' = indices
       /\ get_result' = Some(trace_get(hash, indices, found).result)
       /\ tx_lookups' = tx_lookups + trace_get(hash, indices, found).lookups
  /\ UNCHANGED getFrame

TraceTransaction ==
  /\ gpc = "idle"
  /\ \E hash \in Hashes, found \in BOOLEAN :
       /\ gpc' = "done"
       /\ get_method' = "trace_transaction"
       /\ get_hash' = hash
       /\ get_result' = Some(trace_transaction(hash, found))
       /\ tx_lookups' = tx_lookups + 1
  /\ UNCHANGED get_indices
  /\ UNCHANGED getFrame

(***************************************************************************)
(* replay_transaction.                                                     *)
(***************************************************************************)
TraceTypeSets == {{"trace"}, {"trace", "stateDiff"}}

\* the closure given to spawn_trace_transaction_in_block by replay_transaction:
\* into_parity_builder().into_trace_results_with_state(&res, &trace_types, &db)
replay_trace_results(n, j, trace_types, build_ok) ==
  IF ~build_ok THEN Err(Internal("into_trace_results_with_state"))
  ELSE Ok([output |-> "output",
           trace |-> [i \in 1..NumFrames(n, j) |-> LocalizedTrace(n, j, i - 1).trace],
           state_diff |-> IF "stateDiff" \in trace_types
                          THEN Some([account |-> AddrOf(n + j)])
                          ELSE None,
           vm_trace |-> None])

\* spawn_trace_transaction_in_block(hash, config, closure): Ok(None) for a hash
\* the transaction index does not know, else what the closure returns, in Some
spawn_trace_transaction_in_block_replay(hash, trace_types, found, build_ok) ==
  IF ~found THEN Err(Internal("spawn_trace_transaction_in_block"))
  ELSE IF locate_tx(hash) = None THEN Ok(None)
  ELSE LET r == replay_trace_results(locate_tx(hash)[1][1], locate_tx(hash)[1][2],
                                     trace_types, build_ok)
       IN IF is_ok(r) THEN Ok(Some(r[2])) ELSE r

\* Result::transpose turning an error into None
transpose_err_to_none(r) ==
  IF ~is_ok(r) THEN None
  ELSE IF r[2] = None THEN None
  ELSE Some(Ok(r[2][1]))

\* Result<Option<T>, E>::transpose(): Ok(None) -> None, Ok(Some(x)) -> Some(Ok(x)),
\* Err(e) -> Some(Err(e))
transpose(r) ==
  IF ~is_ok(r) THEN Some(r)
  ELSE IF r[2] = None THEN None
  ELSE Some(Ok(r[2][1]))

\* Option<T>::ok_or(err), followed by `?`: the inner Result is what is returned
ok_or(o, err) == IF o = None THEN Err(err) ELSE o[1]

replay_transaction(hash, trace_types, found, build_ok) ==
  ok_or(transpose(spawn_trace_transaction_in_block_replay(hash, trace_types,
                                                          found, build_ok)),
        TransactionNotFound)

ReplayTransaction ==
  /\ gpc = "idle"
  /\ \E hash \in Hashes, trace_types \in TraceTypeSets,
        found \in BOOLEAN, build_ok \in BOOLEAN :
       /\ gpc' = "done"
       /\ get_method' = "replay_transaction"
       /\ get_hash' = hash
       /\ get_result' = Some(replay_transaction(hash, trace_types, found, build_ok))
       /\ tx_lookups' = tx_lookups + 1
  /\ UNCHANGED get_indices
  /\ UNCHANGED getFrame

(***************************************************************************)
(* trace_transaction_opcode_gas and trace_block_opcode_gas.  A request is  *)
(* made twice on the same chain; the collaborators answer it the same way  *)
(* both times (found, block_found).                                        *)
(***************************************************************************)
\* the opcodes transaction j of block n executes: per opcode, its count and gas
executed(n, j) ==
  LET ops == CASE (n + j) % 3 = 0 -> {"PUSH1"}
               [] (n + j) % 3 = 1 -> {"PUSH1", "ADD"}
               [] OTHER -> {"PUSH1", "ADD", "SSTORE"}
  IN [o \in ops |-> [count |-> 1 + j, gas_used |-> 3 * (1 + j)]]

\* an inspector that keeps the counts of the one the last call left behind
OpcodeGasInspector_reused(left) == left

\* OpcodeGasInspector::default(): no opcode counted, whatever ran before
OpcodeGasInspector_default(left) == <<>>

\* the inspector after transaction j of block n ran under it
inspect_opcodes(inspector, n, j) ==
  [o \in DOMAIN inspector \cup DOMAIN executed(n, j) |->
     [count |-> (IF o \in DOMAIN inspector THEN inspector[o].count ELSE 0)
                + (IF o \in DOMAIN executed(n, j) THEN executed(n, j)[o].count ELSE 0),
      gas_used |-> (IF o \in DOMAIN inspector THEN inspector[o].gas_used ELSE 0)
                   + (IF o \in DOMAIN executed(n, j)
                      THEN executed(n, j)[o].gas_used ELSE 0)]]

OpcodeGas(inspector) ==
  {[opcode_name |-> o, count |-> inspector[o].count, gas_used |-> inspector[o].gas_used] :
     o \in DOMAIN inspector}

\* inspector.opcode_gas_iter().collect(): the entries of the inspector's map, "in
\* no particular order": every order is a possible outcome
opcode_gas_iter(inspector) ==
  {seq \in [1..Cardinality(DOMAIN inspector) -> OpcodeGas(inspector)] :
     \A a, b \in 1..Cardinality(DOMAIN inspector) : a # b => seq[a] # seq[b]}

OpcodeIdle ==
  /\ opc = "idle"
  /\ opcode_call = [method |-> "none"]
  /\ opcode_first = None
  /\ opcode_second = None
  /\ inspector_left = <<>>

\* the call returns `result` to the client; its inspector is dropped
opcode_return(req, result, inspector) ==
  /\ opcode_call' = req
  /\ inspector_left' = inspector
  /\ IF opc = "idle"
     THEN /\ opc' = "once"
          /\ opcode_first' = Some(result)
          /\ UNCHANGED opcode_second
     ELSE /\ opc' = "twice"
          /\ opcode_second' = Some(result)
          /\ UNCHANGED opcode_first
  /\ UNCHANGED opcodeFrame

trace_transaction_opcode_gas(tx_hash, found, opcode_gas) ==
  IF ~found THEN Err(Internal("spawn_trace_transaction_in_block_with_inspector"))
  ELSE IF locate_tx(tx_hash) = None THEN Ok(None)
  ELSE Ok(Some([transaction_hash |-> tx_hash, opcode_gas |-> opcode_gas]))

TraceTransactionOpcodeGas ==
  /\ opc \in {"idle", "once"}
  /\ \E tx_hash \in Hashes, found \in BOOLEAN :
       LET req == [method |-> "trace_transactionOpcodeGas", tx_hash |-> tx_hash,
                   found |-> found]
           loc == locate_tx(tx_hash)
           inspector == IF found /\ loc # None
                        THEN inspect_opcodes(OpcodeGasInspector_default(inspector_left),
                                             loc[1][1], loc[1][2])
                        ELSE OpcodeGasInspector_default(inspector_left)
       IN /\ opc = "once" => opcode_call = req
          /\ \E opcode_gas \in opcode_gas_iter(inspector) :
               opcode_return(req, trace_transaction_opcode_gas(tx_hash, found, opcode_gas),
                             inspector)

\* trace_block_inspector(block_id, None, OpcodeGasInspector::default, ..): the
\* inspectors of the transactions 0..j-1 of block n, one made per transaction
RECURSIVE block_inspectors(_, _, _)
block_inspectors(n, j, left) ==
  IF j = 0 THEN <<>>
  ELSE LET before == block_inspectors(n, j - 1, left)
           last == IF j = 1 THEN left ELSE before[j - 1]
       IN Append(before, inspect_opcodes(OpcodeGasInspector_default(last), n, j - 1))

\* the lists the closure can collect for the first j transactions
RECURSIVE block_opcode_gas_iter(_, _)
block_opcode_gas_iter(inspectors, j) ==
  IF j = 0 THEN {<<>>}
  ELSE {Append(before, opcode_gas) :
          before \in block_opcode_gas_iter(inspectors, j - 1),
          opcode_gas \in opcode_gas_iter(inspectors[j])}

trace_block_opcode_gas(id, found, block_found, opcode_gas) ==
  IF ~found THEN Err(Internal("trace_block_inspector"))
  ELSE IF resolve(id) = None THEN Ok(None)
  ELSE IF ~block_found THEN Err(Internal("recovered_block"))
  ELSE IF recovered_block(id) = None THEN Ok(None)
  ELSE Ok(Some([block_hash |-> BlockHash(recovered_block(id)[1]),
                block_number |-> recovered_block(id)[1],
                transactions |->
                  [j \in 1..Len(opcode_gas) |->
                     [transaction_hash |-> TxHash(resolve(id)[1], j - 1),
                      opcode_gas |-> opcode_gas[j]]]]))

TraceBlockOpcodeGas ==
  /\ opc \in {"idle", "once"}
  /\ \E id \in BlockIds, found \in BOOLEAN, block_found \in BOOLEAN :
       LET req == [method |-> "trace_blockOpcodeGas", block_id |-> id,
                   found |-> found, block_found |-> block_found]
           inspectors == IF found /\ resolve(id) # None
                         THEN block_inspectors(resolve(id)[1], NumTxs(resolve(id)[1]),
                                               inspector_left)
                         ELSE <<>>
       IN /\ opc = "once" => opcode_call = req
          /\ \E opcode_gas \in block_opcode_gas_iter(inspectors, Len(inspectors)) :
               opcode_return(req,
                             trace_block_opcode_gas(id, found, block_found, opcode_gas),
                             IF inspectors = <<>> THEN inspector_left
                             ELSE inspectors[Len(inspectors)])

(***************************************************************************)
(* trace_call_many.  The state is the storage of a few slots; a call       *)
(* writes a slot, reads one, or increments one.                            *)
(***************************************************************************)
MaxCalls == 3
Slots == {"s1", "s2"}
States == [Slots -> 0..1]
CallRequests ==
  [op : {"write", "read", "incr"}, slot : Slots,
   trace_types : {{"trace"}, {"trace", "stateDiff"}}]
CallLists == UNION {[1..len -> CallRequests] : len \in 0..MaxCalls}
WrittenValue == 2

\* no request of trace_call_many yet
ManyRequestIdle ==
  /\ mpc = "idle"
  /\ many_input = <<>>
  /\ calls = <<>>
  /\ db = <<>>
  /\ results = <<>>
  /\ exec_pre = <<>>
  /\ commits = 0
  /\ many_log = <<>>
  /\ many_result = None

ManyIdle ==
  /\ ManyRequestIdle
  /\ base_state = [s \in Slots |-> 0]

\* an overlay kept in the shared handle: the one trace_call_many is writing
CacheDB_shared == db

\* CacheDB::new(StateProviderDatabase::new(state)): nothing cached
CacheDB_new == <<>>
\* what a read of the overlay sees: the cached value, else that of the state below
db_read(cache, slot) == IF slot \in DOMAIN cache THEN cache[slot] ELSE base_state[slot]
\* a read through &mut CacheDB caches what it loaded
db_load(cache, slot) == IF slot \in DOMAIN cache THEN cache ELSE (slot :> base_state[slot]) @@ cache
\* DatabaseCommit::commit: the changed slots replace what the cache held
db_commit(cache, state) == state @@ cache

\* eth_api().inspect(&mut db, ..): the execution result and its state changes
\* (the slots it touched with their new values); the real database is not written
inspect(cache, call) ==
  LET old == db_read(cache, call.slot)
      new == CASE call.op = "write" -> WrittenValue
               [] call.op = "incr" -> old + 1
               [] OTHER -> old
  IN [output |-> IF call.op = "write" THEN 0 ELSE new,
      state |-> (call.slot :> new)]

\* TracingInspector::new(TracingInspectorConfig::from_parity_config(&trace_types)):
\* an inspector that has recorded no frame
TracingInspector_new(trace_types) == [config |-> trace_types, frames |-> <<>>]
\* the inspector after the call ran under it: it recorded the frame of the call
inspected(inspector, call) ==
  [inspector EXCEPT !.frames = Append(@, [op |-> call.op, slot |-> call.slot])]

\* inspector.into_parity_builder().into_trace_results_with_state(&res, &trace_types, &db)
into_trace_results_with_state(inspector, res, trace_types, cache) ==
  [output |-> res.output,
   trace |-> inspector.frames,
   state_diff |-> IF "stateDiff" \in trace_types
                  THEN Some([s \in DOMAIN res.state |->
                               [pre |-> db_read(cache, s), post |-> res.state[s]]])
                  ELSE None]

\* a push into a vector made anew in every turn of the loop
push_into_new(vec, x) == <<x>>

\* results.push(trace_res)
push(vec, x) == Append(vec, x)

\* trace_call_many up to the closure: the environment and the state at the block
TraceCallManyStartOf(lists, states) ==
  /\ mpc = "idle"
  /\ \E cs \in lists, state \in states, env_ok \in BOOLEAN :
       /\ many_input' = cs
       /\ IF env_ok
          THEN /\ mpc' = "running"
               /\ base_state' = state
               /\ calls' = cs
               /\ db' = CacheDB_new
               /\ UNCHANGED many_result
          ELSE /\ mpc' = "done"
               /\ many_result' = Some(Err(Internal("evm_env_at")))
               /\ UNCHANGED <<base_state, calls, db>>
  /\ UNCHANGED <<results, exec_pre, commits, many_log>>
  /\ UNCHANGED manyFrame

TraceCallManyStart == TraceCallManyStartOf(CallLists, States)

\* the commit condition with the test inverted: only the last call is committed
commit_when_last(rest) == rest = <<>>

\* a commit after every call, the last one too
commit_always(rest) == TRUE

\* calls.peek().is_some()
commit_when_more(rest) == rest # <<>>

\* how a turn of the loop ends: with a result, or at one of its three `?`
TurnEnds == {"ok", "prepare_call_env", "inspect", "into_trace_results_with_state"}

\* a turn that fails handing back what the turns before it produced
turn_failed_partial(how, so_far) == Ok(so_far)

\* the `?` of a turn: the closure returns the error, its locals are dropped
turn_failed(how, so_far) == Err(Internal(how))

\* one turn of `while let Some((call, trace_types)) = calls.next()`
TraceCallManyStep ==
  /\ mpc = "running"
  /\ calls # <<>>
  /\ \E how \in TurnEnds :
       LET call == Head(calls)
           rest == Tail(calls)
           i == Len(many_input) - Len(calls)
           res == inspect(db, call)
           loaded == db_load(db, call.slot)
           inspector == inspected(TracingInspector_new(call.trace_types), call)
           trace_res == into_trace_results_with_state(inspector, res, call.trace_types, loaded)
       IN /\ calls' = rest
          /\ CASE how = "prepare_call_env" ->
                    /\ mpc' = "done"
                    /\ many_result' = Some(turn_failed(how, results))
                    /\ many_log' = Append(many_log, <<how, i>>)
                    /\ UNCHANGED <<db, results, exec_pre, commits>>
               [] how = "inspect" ->
                    /\ mpc' = "done"
                    /\ many_result' = Some(turn_failed(how, results))
                    /\ many_log' = many_log \o <<<<"execute", i>>, <<how, i>>>>
                    /\ UNCHANGED <<db, results, exec_pre, commits>>
               [] how = "into_trace_results_with_state" ->
                    /\ mpc' = "done"
                    /\ many_result' = Some(turn_failed(how, results))
                    /\ exec_pre' = Append(exec_pre, [s \in Slots |-> db_read(db, s)])
                    /\ many_log' = many_log \o <<<<"execute", i>>, <<how, i>>>>
                    /\ db' = loaded
                    /\ UNCHANGED <<results, commits>>
               [] OTHER ->
                    /\ exec_pre' = Append(exec_pre, [s \in Slots |-> db_read(db, s)])
                    /\ results' = push(results, trace_res)
                    /\ IF commit_when_more(rest)
                       THEN /\ db' = db_commit(loaded, res.state)
                            /\ commits' = commits + 1
                            /\ many_log' = many_log \o
                                 <<<<"execute", i>>, <<"result", i>>, <<"commit", i>>>>
                       ELSE /\ db' = loaded
                            /\ many_log' = many_log \o <<<<"execute", i>>, <<"result", i>>>>
                            /\ UNCHANGED commits
                    /\ UNCHANGED <<mpc, many_result>>
  /\ UNCHANGED <<many_input, base_state>>
  /\ UNCHANGED manyFrame

\* the iterator is empty: Ok(results)
TraceCallManyReturn ==
  /\ mpc = "running"
  /\ calls = <<>>
  /\ mpc' = "done"
  /\ many_result' = Some(Ok(results))
  /\ UNCHANGED <<many_input, base_state, calls, db, results, exec_pre, commits, many_log>>
  /\ UNCHANGED manyFrame

(***************************************************************************)
(* trace_call, and trace_call_many with a trace_call made meanwhile or     *)
(* afterwards.  base_state is the state database at the block of both.     *)
(***************************************************************************)
CallIdle ==
  /\ cpc = "idle"
  /\ call_request = [op |-> "read", slot |-> "s1", trace_types |-> {"trace"}]
  /\ call_overlay = <<>>
  /\ call_result = None

\* the requests made in the presence of the other method: trace_call_many with
\* calls that change the state, trace_call with a state diff asked for
StateDiffRequests == {c \in CallRequests : c.trace_types = {"trace", "stateDiff"}}
WritingCallLists ==
  UNION {[1..len -> {c \in StateDiffRequests : c.op # "read"}] : len \in 0..MaxCalls}

\* trace_call: the closure given to spawn_with_call_at runs the call on the
\* database the collaborator made for it
trace_call(trace_request, spawned) ==
  IF ~spawned THEN Err(Internal("spawn_with_call_at"))
  ELSE LET cache == CacheDB_new
           inspector == inspected(TracingInspector_new(trace_request.trace_types),
                                  trace_request)
           res == inspect(cache, trace_request)
       IN Ok(into_trace_results_with_state(inspector, res, trace_request.trace_types,
                                           db_load(cache, trace_request.slot)))

TraceCall ==
  /\ cpc = "idle"
  /\ \E trace_request \in StateDiffRequests, spawned \in BOOLEAN :
       /\ cpc' = "done"
       /\ call_request' = trace_request
       /\ call_overlay' = db
       /\ call_result' = Some(trace_call(trace_request, spawned))
  /\ UNCHANGED callFrame
  /\ UNCHANGED manyVars

\* the client goes away: the future of trace_call_many is dropped with what it holds
TraceCallManyCancelled ==
  /\ mpc = "running"
  /\ mpc' = "done"
  /\ calls' = <<>>
  /\ results' = <<>>
  /\ UNCHANGED <<many_input, base_state, db, exec_pre, commits, many_log, many_result>>
  /\ UNCHANGED manyFrame

(***************************************************************************)
(* trace_raw_transaction.  Raw bytes are short sequences of small numbers: *)
(* an encoded transaction is its type, its payload and its signature.      *)
(***************************************************************************)
MaxRawLen == 3
MaxByte == 2
Bytes == UNION {[1..len -> 0..MaxByte] : len \in 0..MaxRawLen}

EmptyRawTransactionData ==
  [kind |-> "InvalidParams", msg |-> "empty transaction data"]
FailedToDecodeSignedTransaction ==
  [kind |-> "InvalidParams", msg |-> "failed to decode signed transaction"]
InvalidTransactionSignature ==
  [kind |-> "InvalidParams", msg |-> "invalid transaction signature"]

\* T::decode_2718: a known type, then the payload and the signature, nothing more
decode_2718(data) ==
  IF Len(data) = 3 /\ data[1] \in {1, 2}
  THEN Some([form |-> "pooled", type |-> data[1], payload |-> data[2],
             signature |-> data[3]])
  ELSE None

\* the sender a signature recovers to, None for a signature that recovers to none
recover_signer(transaction) ==
  IF transaction.signature = 0 THEN None ELSE Some(AddrOf(transaction.signature))

\* recover_raw_transaction: the signed transaction with its sender
recover_raw_transaction(data) ==
  IF data = <<>> THEN Err(EmptyRawTransactionData)
  ELSE LET transaction == decode_2718(data)
       IN IF transaction = None THEN Err(FailedToDecodeSignedTransaction)
          ELSE IF recover_signer(transaction[1]) = None
               THEN Err(InvalidTransactionSignature)
               ELSE Ok([tx |-> transaction[1],
                        signer |-> recover_signer(transaction[1])[1]])

\* Transaction::pooled_into_consensus
pooled_into_consensus(transaction) == [transaction EXCEPT !.form = "consensus"]

\* the recovery with its error replaced by a default transaction
recover_or_default(tx) ==
  LET r == recover_raw_transaction(tx)
  IN IF is_ok(r) THEN Ok([r[2] EXCEPT !.tx = pooled_into_consensus(@)])
     ELSE Ok([tx |-> [form |-> "consensus", type |-> 1, payload |-> 0, signature |-> 0],
              signer |-> AddrOf(0)])

\* recover_raw_transaction(&tx)?.map(pooled_into_consensus), the `?` as the Err
recover_and_map(tx) ==
  LET r == recover_raw_transaction(tx)
  IN IF is_ok(r) THEN Ok([r[2] EXCEPT !.tx = pooled_into_consensus(@)]) ELSE r

\* evm_config().tx_env(tx): what the transaction does when executed
tx_env(recovered) ==
  [op |-> CASE recovered.tx.payload = 0 -> "write"
            [] recovered.tx.payload = 1 -> "incr"
            [] OTHER -> "read",
   slot |-> IF recovered.tx.type = 1 THEN "s1" ELSE "s2",
   caller |-> recovered.signer]

RawIdle ==
  /\ rpc = "idle"
  /\ raw_tx = <<>>
  /\ raw_types = {}
  /\ raw_block_id = None
  /\ raw_recovered = None
  /\ raw_env_calls = 0
  /\ raw_executions = 0
  /\ raw_result = None

\* trace_raw_transaction up to the call of evm_env_at
TraceRawTransactionStart ==
  /\ rpc = "idle"
  /\ \E tx \in Bytes, trace_types \in TraceTypeSets, id \in Opt(BlockIds) :
       /\ raw_tx' = tx
       /\ raw_types' = trace_types
       /\ raw_block_id' = id
       /\ LET r == recover_and_map(tx)
          IN IF is_ok(r)
             THEN /\ rpc' = "env"
                  /\ raw_recovered' = Some(r[2])
                  /\ raw_env_calls' = raw_env_calls + 1
                  /\ UNCHANGED raw_result
             ELSE /\ rpc' = "done"
                  /\ raw_result' = Some(r)
                  /\ UNCHANGED <<raw_recovered, raw_env_calls>>
  /\ UNCHANGED raw_executions
  /\ UNCHANGED rawFrame

\* evm_env_at(block_id.unwrap_or_default()) answers; the execution is spawned
TraceRawTransactionEnv ==
  /\ rpc = "env"
  /\ LET at == resolve(unwrap_or(raw_block_id, [tag |-> "latest", number |-> 0]))
     IN IF at = None
        THEN /\ rpc' = "done"
             /\ raw_result' = Some(Err(HeaderNotFound))
             /\ UNCHANGED raw_executions
        ELSE /\ rpc' = "spawned"
             /\ raw_executions' = raw_executions + 1
             /\ UNCHANGED raw_result
  /\ UNCHANGED <<raw_tx, raw_types, raw_block_id, raw_recovered, raw_env_calls>>
  /\ UNCHANGED rawFrame

\* spawn_trace_at_with_state: the execution under a new inspector, then the
\* closure that builds the results-with-state
spawn_trace_at_with_state(env, trace_types, how) ==
  IF how = "execute" THEN Err(Internal("spawn_trace_at_with_state"))
  ELSE IF how = "build" THEN Err(Internal("into_trace_results_with_state"))
  ELSE LET cache == CacheDB_new
           inspector == inspected(TracingInspector_new(trace_types), env)
           res == inspect(cache, env)
       IN Ok(into_trace_results_with_state(inspector, res, trace_types,
                                           db_load(cache, env.slot)))

TraceRawTransactionFinish ==
  /\ rpc = "spawned"
  /\ \E how \in {"ok", "execute", "build"} :
       raw_result' = Some(spawn_trace_at_with_state(tx_env(raw_recovered[1]), raw_types, how))
  /\ rpc' = "done"
  /\ UNCHANGED <<raw_tx, raw_types, raw_block_id, raw_recovered, raw_env_calls,
                 raw_executions>>
  /\ UNCHANGED rawFrame

(***************************************************************************)
(* trace_filter.                                                           *)
(***************************************************************************)
\* TraceFilter::matcher(): an address set constrains nothing when empty
address_matches(set, addr) == set = {} \/ addr \in set
matches(f, trace) ==
  IF trace.action.type = "reward"
  THEN f.from_address = {} /\ address_matches(f.to_address, trace.action.author)
  ELSE address_matches(f.from_address, trace.action.from)
       /\ address_matches(f.to_address, trace.action.to)

retain(traces, f) == SelectSeq(traces, LAMBDA t : matches(f, t.trace))

\* provider.recovered_block_range(start..=end): the blocks the store holds
recovered_block_range(start, end) ==
  [k \in 1..(Min(end, latest) - start + 1) |-> start + k - 1]

\* the closure given to trace_block_until, over every transaction of block n
trace_block_job(n, f) ==
  Concat([j \in 1..NumTxs(n) |-> retain(into_localized_transaction_traces(n, j - 1), f)])

\* the loop leaving at the first block that adds no reward trace, be it for
\* Paris or for the matcher
RECURSIVE reward_loop_until_none_added(_, _, _)
reward_loop_until_none_added(bs, k, f) ==
  IF k > Len(bs) THEN <<>>
  ELSE LET base == calculate_base_block_reward(chain, Header(bs[k]))
           added == IF is_some(base)
                    THEN retain(extract_reward_traces(Header(bs[k]), OmmersOf(bs[k]),
                                                      base[1]), f)
                    ELSE <<>>
       IN IF added # <<>> THEN added \o reward_loop_until_none_added(bs, k + 1, f)
          ELSE <<>>

\* the loop "add reward traces for all blocks", from the k-th block on
RECURSIVE reward_loop(_, _, _)
reward_loop(bs, k, f) ==
  IF k > Len(bs) THEN <<>>
  ELSE LET base == calculate_base_block_reward(chain, Header(bs[k]))
       IN IF is_some(base)
          THEN retain(extract_reward_traces(Header(bs[k]), OmmersOf(bs[k]), base[1]), f)
               \o reward_loop(bs, k + 1, f)
          ELSE <<>>

\* paginate with the truncation to `count` done before the skip of `after`
paginate_truncate_first(all_traces, after, count) ==
  LET cut == IF is_some(count) /\ count[1] < Len(all_traces)
             THEN SubSeq(all_traces, 1, count[1])
             ELSE all_traces
  IN IF is_some(after) /\ ~(after[1] < Len(cut)) THEN <<>>
     ELSE IF is_some(after) THEN SubSeq(cut, after[1] + 1, Len(cut))
     ELSE cut

\* "Skips the first `after`" and "Return at most `count`"
paginate(all_traces, after, count) ==
  IF is_some(after) /\ ~(after[1] < Len(all_traces)) THEN <<>>
  ELSE LET drained == IF is_some(after)
                      THEN SubSeq(all_traces, after[1] + 1, Len(all_traces))
                      ELSE all_traces
       IN IF is_some(count) /\ count[1] < Len(drained)
          THEN SubSeq(drained, 1, count[1])
          ELSE drained

\* validate_range rejecting a span equal to the maximum
validate_range_off_by_one(start, to_block) ==
  LET end == unwrap_or(to_block, latest)
  IN IF start > latest THEN Some(HeaderNotFound)
     ELSE IF start > end THEN Some(InvalidParamsFromGtTo)
     ELSE IF Max(end - start, 0) >= max_trace_filter_blocks
          THEN Some(InvalidParamsRangeTooLarge)
     ELSE None

\* validate_range comparing fromBlock with toBlock before it compares it with latest
validate_range_swapped(start, to_block) ==
  LET end == unwrap_or(to_block, latest)
  IN IF start > end THEN Some(InvalidParamsFromGtTo)
     ELSE IF start > latest THEN Some(HeaderNotFound)
     ELSE IF Max(end - start, 0) > max_trace_filter_blocks
          THEN Some(InvalidParamsRangeTooLarge)
     ELSE None

\* validate_range comparing the end of the range with latest as well
validate_range_end_checked(start, to_block) ==
  LET end == unwrap_or(to_block, latest)
  IN IF start > latest \/ end > latest THEN Some(HeaderNotFound)
     ELSE IF start > end THEN Some(InvalidParamsFromGtTo)
     ELSE IF Max(end - start, 0) > max_trace_filter_blocks
          THEN Some(InvalidParamsRangeTooLarge)
     ELSE None

\* the validation of the range: None when the request is accepted
validate_range(start, to_block) ==
  LET end == unwrap_or(to_block, latest)
  IN IF start > latest THEN Some(HeaderNotFound)
     ELSE IF start > end THEN Some(InvalidParamsFromGtTo)
     ELSE IF Max(end - start, 0) > max_trace_filter_blocks
          THEN Some(InvalidParamsRangeTooLarge)
     ELSE None

Filters ==
  [from_block : Opt(0..(MaxLatest + 1)),
   to_block : Opt(0..(MaxLatest + 1)),
   after : Opt(0..MaxAfter),
   count : Opt(0..MaxCount),
   from_address : {{}, {"B"}},
   to_address : {{}, {"A"}, {"B", "C"}}]

NoFilter ==
  [from_block |-> None, to_block |-> None, after |-> None, count |-> None,
   from_address |-> {}, to_address |-> {}]

FilterIdle ==
  /\ fpc = "idle"
  /\ filter = NoFilter
  /\ blocks = <<>>
  /\ job_outputs = <<>>
  /\ block_traces = <<>>
  /\ collected_traces = <<>>
  /\ filter_result = None
  /\ blocks_loaded = 0
  /\ jobs_spawned = 0

\* trace_filter up to its first suspension: validation, the fetch of the blocks
\* and the creation of one job per block
trace_filter_start(f, best_ok, range_ok) ==
  LET start == unwrap_or(f.from_block, 0)
      end == unwrap_or(f.to_block, latest)
      rejected == validate_range(start, f.to_block)
      bs == recovered_block_range(start, end)
  IN /\ filter' = f
     /\ IF ~best_ok
        THEN /\ fpc' = "done"
             /\ filter_result' = Some(Err(Internal("best_block_number")))
             /\ UNCHANGED <<blocks, job_outputs, block_traces, collected_traces,
                            blocks_loaded, jobs_spawned>>
        ELSE IF is_some(rejected)
        THEN /\ fpc' = "done"
             /\ filter_result' = Some(Err(rejected[1]))
             /\ UNCHANGED <<blocks, job_outputs, block_traces, collected_traces,
                            blocks_loaded, jobs_spawned>>
        ELSE IF ~range_ok
        THEN /\ fpc' = "done"
             /\ filter_result' = Some(Err(Internal("recovered_block_range")))
             /\ blocks_loaded' = blocks_loaded + 1
             /\ UNCHANGED <<blocks, job_outputs, block_traces, collected_traces, jobs_spawned>>
        ELSE /\ fpc' = "joining"
             /\ blocks' = bs
             /\ blocks_loaded' = blocks_loaded + 1
             /\ jobs_spawned' = jobs_spawned + Len(bs)
             /\ UNCHANGED <<job_outputs, block_traces, collected_traces, filter_result>>
     /\ UNCHANGED filterFrame

TraceFilterStart ==
  /\ fpc = "idle"
  /\ \E f \in Filters, best_ok \in BOOLEAN, range_ok \in BOOLEAN :
       trace_filter_start(f, best_ok, range_ok)

failed_outputs(outputs) == {i \in 1..Len(outputs) : ~is_ok(outputs[i].output)}

\* the jobs that can still complete: try_join_all returns at the first error and
\* drops the jobs that are left
pending_jobs ==
  IF failed_outputs(job_outputs) # {} THEN {}
  ELSE (1..Len(blocks)) \ {job_outputs[i].job : i \in 1..Len(job_outputs)}

\* the job of the k-th block completes
TraceFilterJobOk ==
  /\ fpc = "joining"
  /\ \E k \in pending_jobs :
       /\ job_outputs' = Append(job_outputs,
                                [job |-> k, output |-> Ok(trace_block_job(blocks[k], filter))])
       /\ UNCHANGED <<fpc, filter, blocks, block_traces, collected_traces, filter_result,
                      blocks_loaded, jobs_spawned>>
       /\ UNCHANGED filterFrame

\* the job of the k-th block fails
TraceFilterJobErr ==
  /\ fpc = "joining"
  /\ \E k \in pending_jobs :
       /\ job_outputs' = Append(job_outputs,
                                [job |-> k, output |-> Err(Internal("trace_block_until"))])
       /\ UNCHANGED <<fpc, filter, blocks, block_traces, collected_traces, filter_result,
                      blocks_loaded, jobs_spawned>>
       /\ UNCHANGED filterFrame

\* a join that waits for every job and leaves out the jobs that failed
join_all_skip_failed(n, outputs) ==
  IF Len(outputs) < n THEN None
  ELSE Some(Ok([k \in 1..n |->
                  LET o == CHOOSE o \in {outputs[i] : i \in 1..n} : o.job = k
                  IN IF is_ok(o.output) THEN o.output[2] ELSE <<>>]))

\* a join that yields the outputs in the order in which the jobs completed
try_join_all_unordered(n, outputs) ==
  IF failed_outputs(outputs) # {}
  THEN Some(outputs[CHOOSE i \in failed_outputs(outputs) : TRUE].output)
  ELSE IF Len(outputs) < n THEN None
  ELSE Some(Ok([k \in 1..n |-> outputs[k].output[2]]))

\* futures::future::try_join_all over the n jobs: None while it is pending, the
\* error of a failed job as soon as there is one, else, when every job has
\* completed, the outputs in the order of the jobs (of the blocks)
try_join_all(n, outputs) ==
  IF failed_outputs(outputs) # {}
  THEN Some(outputs[CHOOSE i \in failed_outputs(outputs) : TRUE].output)
  ELSE IF Len(outputs) < n THEN None
  ELSE Some(Ok([k \in 1..n |->
                  (CHOOSE o \in {outputs[i] : i \in 1..n} : o.job = k).output[2]]))

\* the traces of the blocks flattened, then the reward traces of the blocks
collect_all_traces(joined_traces) == Concat(joined_traces) \o reward_loop(blocks, 1, filter)

\* after try_join_all(..).await?: flatten, add the reward traces, paginate
trace_filter_finish(joined) ==
  IF ~is_ok(joined) THEN joined
  ELSE Ok(paginate(collect_all_traces(joined[2]), filter.after, filter.count))

TraceFilterFinish ==
  /\ fpc = "joining"
  /\ try_join_all(Len(blocks), job_outputs) # None
  /\ fpc' = "done"
  /\ block_traces' = IF is_ok(try_join_all(Len(blocks), job_outputs)[1])
                     THEN try_join_all(Len(blocks), job_outputs)[1][2]
                     ELSE block_traces
  /\ collected_traces' =
       IF is_ok(try_join_all(Len(blocks), job_outputs)[1])
       THEN collect_all_traces(try_join_all(Len(blocks), job_outputs)[1][2])
       ELSE collected_traces
  /\ filter_result' = Some(trace_filter_finish(try_join_all(Len(blocks), job_outputs)[1]))
  /\ UNCHANGED <<filter, blocks, job_outputs, blocks_loaded, jobs_spawned>>
  /\ UNCHANGED filterFrame

AllIdle ==
  /\ FilterIdle /\ BlockIdle /\ GetIdle /\ ManyIdle /\ PermitIdle /\ OpcodeIdle /\ CallIdle
  /\ RawIdle /\ RewardIdle

WorldInit ==
  /\ chain \in Chains
  /\ latest \in 1..MaxLatest

\* a chain for the operations that do not read the chain
WorldFixed ==
  /\ chain = "mainnet"
  /\ latest = MaxLatest

FilterInit == WorldInit /\ AllIdle
FilterNext ==
  \/ TraceFilterStart
  \/ TraceFilterJobOk
  \/ TraceFilterJobErr
  \/ TraceFilterFinish
SpecFilter == FilterInit /\ [][FilterNext]_vars

(***************************************************************************)
(* Properties of trace_filter.                                             *)
(***************************************************************************)
FilterDone == fpc = "done" /\ filter_result # None
FilterOk == FilterDone /\ is_ok(filter_result[1])
FilterReturned == filter_result[1][2]
FilterStart == unwrap_or(filter.from_block, 0)
FilterEnd == unwrap_or(filter.to_block, latest)
\* the block numbers of the range that the chain holds, ascending
RangeBlocks == [k \in 1..(Min(FilterEnd, latest) - FilterStart + 1) |-> FilterStart + k - 1]

\* a block whose number is strictly below the Paris activation of its chain
PreParis(n) ==
  \/ chain = "mainnet" /\ n < MainnetParisBlock
  \/ chain = "sepolia" /\ n < SepoliaParisBlock

TxTracesOf(n) == Concat([j \in 1..NumTxs(n) |-> into_localized_transaction_traces(n, j - 1)])
RewardTracesOf(n) ==
  IF PreParis(n)
  THEN extract_reward_traces(Header(n), OmmersOf(n), base_block_reward_pre_merge(chain, n))
  ELSE <<>>
Matching(traces) == SelectSeq(traces, LAMBDA t : matches(filter, t.trace))

\* every trace of the range, block by block, a block's rewards after its transactions
CanonicalOrder == Concat([k \in 1..Len(RangeBlocks) |->
                    TxTracesOf(RangeBlocks[k]) \o RewardTracesOf(RangeBlocks[k])])
PosIn(seq, x) == CHOOSE i \in 1..Len(seq) : seq[i] = x

\* C2: the list trace_filter returns is ordered block by block (ascending), and in
\* a block: transaction traces in execution order, then the block reward, then the
\* ommer rewards; a block's rewards come before every trace of a later block.
C2_FilterOrderedBlockByBlock ==
  FilterOk =>
    \A i, j \in 1..Len(FilterReturned) :
      i < j => PosIn(CanonicalOrder, FilterReturned[i]) < PosIn(CanonicalOrder, FilterReturned[j])

\* the matcher-passing traces of the range: those of the transactions of every
\* block, then the reward traces of every pre-Paris block
AllMatches ==
  Matching(Concat([k \in 1..Len(RangeBlocks) |-> TxTracesOf(RangeBlocks[k])]))
  \o Matching(Concat([k \in 1..Len(RangeBlocks) |-> RewardTracesOf(RangeBlocks[k])]))
Skip == unwrap_or(filter.after, 0)
SliceLen == IF is_some(filter.count)
            THEN Min(filter.count[1], Max(0, Len(AllMatches) - Skip))
            ELSE Max(0, Len(AllMatches) - Skip)

\* C3: an accepted trace_filter returns the contiguous slice of the matching traces
\* that starts at index `after` and has at most `count` elements: its length is
\* min(count, max(0, |M| - after)), and it is empty (not an error) when after >= |M|.
C3_FilterPagination ==
  FilterOk =>
    /\ Len(FilterReturned) = SliceLen
    /\ \A i \in 1..SliceLen : FilterReturned[i] = AllMatches[Skip + i]

C3_Witness ==
  /\ FilterOk
  /\ filter.after = Some(1)
  /\ filter.count = Some(2)
  /\ Len(AllMatches) >= 4
  /\ FilterReturned = <<AllMatches[2], AllMatches[3]>>

IsInvalidParams(r) == ~is_ok(r) /\ r[2].kind = "InvalidParams"
BestBlockFailed == filter_result = Some(Err(Internal("best_block_number")))

C6_RangeValidationOrder ==
  (FilterDone /\ ~BestBlockFailed) =>
    /\ FilterStart > latest => filter_result[1] = Err(HeaderNotFound)
    /\ (FilterStart <= latest /\ FilterStart > FilterEnd)
         => filter_result[1] = Err(InvalidParamsFromGtTo)
    /\ filter_result[1] \in {Err(HeaderNotFound), Err(InvalidParamsFromGtTo),
                             Err(InvalidParamsRangeTooLarge)}
         => blocks_loaded = 0 /\ jobs_spawned = 0 /\ blocks = <<>>

C6_Witness ==
  /\ FilterDone
  /\ FilterStart > latest
  /\ FilterStart > FilterEnd
  /\ filter_result[1] = Err(HeaderNotFound)
  /\ blocks_loaded = 0
  /\ jobs_spawned = 0

JobFailed == \E i \in 1..Len(job_outputs) : ~is_ok(job_outputs[i].output)

\* C14: if the trace job of any block of the range fails, trace_filter returns
\* that error: no list is returned, so the traces of the blocks whose jobs
\* succeeded are never delivered as a partial result.
C14_FilterJobFailureFailsRequest ==
  (FilterDone /\ JobFailed) =>
    /\ ~is_ok(filter_result[1])
    /\ \E i \in 1..Len(job_outputs) : filter_result[1] = job_outputs[i].output

C14_Witness ==
  /\ FilterDone
  /\ Len(job_outputs) = 2
  /\ is_ok(job_outputs[1].output)
  /\ job_outputs[1].output[2] # <<>>
  /\ ~is_ok(job_outputs[2].output)
  /\ filter_result[1] = Err(Internal("trace_block_until"))

\* the blocks of the transaction traces of a list, in the order of the list
TxBlockNumbers(list) ==
  LET txs == SelectSeq(list, LAMBDA t : ~(t.trace.action.type = "reward"))
  IN [i \in 1..Len(txs) |-> txs[i].block_number[1]]

\* C15: the transaction traces trace_filter returns are in ascending block-number
\* order, and the traces try_join_all hands over are those of the blocks of the
\* range in ascending order, whatever the order in which the jobs completed.
C15_FilterBlocksAscendingAnyCompletion ==
  FilterOk =>
    /\ \A i, j \in 1..Len(TxBlockNumbers(FilterReturned)) :
         i < j => TxBlockNumbers(FilterReturned)[i] <= TxBlockNumbers(FilterReturned)[j]
    /\ Len(block_traces) = Len(blocks)
    /\ \A k \in 1..Len(blocks) : block_traces[k] = Matching(TxTracesOf(blocks[k]))

C15_Witness ==
  /\ FilterOk
  /\ Len(job_outputs) = 2
  /\ job_outputs[1].job = 2
  /\ job_outputs[2].job = 1
  /\ job_outputs[1].output[2] # <<>>
  /\ job_outputs[2].output[2] # <<>>
  /\ filter.after = None
  /\ filter.count = None
  /\ TxBlockNumbers(FilterReturned)[1] = blocks[1]
  /\ blocks[1] < blocks[2]

BlockInit == WorldInit /\ AllIdle
BlockNext ==
  \/ TraceBlockStart
  \/ TraceBlockTraces
  \/ TraceBlockLookup
  \/ TraceBlockFinish
SpecBlock == BlockInit /\ [][BlockNext]_vars

(***************************************************************************)
(* Properties of trace_block and of the reward calculator.                 *)
(***************************************************************************)
BlockDone == bpc = "done" /\ block_result # None
BlockOk == BlockDone /\ is_ok(block_result[1])
BlockReturned == block_result[1][2]
IsReward(t) == t.trace.action.type = "reward"
OmmerCount(n) == IF OmmersOf(n) = None THEN 0 ELSE Len(OmmersOf(n)[1])

\* C7: for a known block B, trace_block(B) is, when B is pre-Paris with k ommers,
\* the transaction traces of B followed by exactly k+1 reward traces (one Block,
\* then k Uncle); when Paris is active for B it holds no reward trace.
C7_TraceBlockRewards ==
  (BlockOk /\ resolve(block_id) # None) =>
    LET n == resolve(block_id)[1]
        k == OmmerCount(n)
    IN /\ BlockReturned # None
       /\ LET list == BlockReturned[1]
              m == Len(list) - (k + 1)
          IN IF PreParis(n)
             THEN /\ m = Len(TxTracesOf(n))
                  /\ \A i \in 1..m : list[i] = TxTracesOf(n)[i] /\ ~IsReward(list[i])
                  /\ IsReward(list[m + 1])
                  /\ list[m + 1].trace.action.reward_type = "Block"
                  /\ \A i \in (m + 2)..Len(list) :
                       IsReward(list[i]) /\ list[i].trace.action.reward_type = "Uncle"
             ELSE /\ list = TxTracesOf(n)
                  /\ \A i \in 1..Len(list) : ~IsReward(list[i])

C7_Witness ==
  /\ BlockOk
  /\ resolve(block_id) # None
  /\ PreParis(resolve(block_id)[1])
  /\ OmmerCount(resolve(block_id)[1]) = 2
  /\ Len(TxTracesOf(resolve(block_id)[1])) >= 2
  /\ Len(BlockReturned[1]) = Len(TxTracesOf(resolve(block_id)[1])) + 3

GetInit == WorldInit /\ AllIdle
GetNext ==
  \/ TraceGet
  \/ TraceTransaction
  \/ ReplayTransaction
SpecGet == GetInit /\ [][GetNext]_vars

(***************************************************************************)
(* Properties of trace_get.                                                *)
(***************************************************************************)
GetDone == gpc = "done" /\ get_method = "trace_get" /\ get_result # None
\* what trace_transaction returns for the hash of the request
TracesOfHash == trace_transaction(get_hash, TRUE)[2]

\* C9: trace_get(h, [i]) is the element at zero-based position i of
\* trace_transaction(h) when 0 <= i < its length, and None when i is past the
\* end of that list or the transaction is unknown.
C9_TraceGetIsNthOfTraceTransaction ==
  (GetDone /\ Len(get_indices) = 1 /\ is_ok(get_result[1])) =>
    LET i == get_indices[1]
    IN IF TracesOfHash # None /\ i < Len(TracesOfHash[1])
       THEN get_result[1] = Ok(Some(TracesOfHash[1][i + 1]))
       ELSE get_result[1] = Ok(None)

C9_Witness ==
  /\ GetDone
  /\ get_indices = <<1>>
  /\ TracesOfHash # None
  /\ Len(TracesOfHash[1]) = 2
  /\ get_result[1] = Ok(Some(TracesOfHash[1][2]))
  /\ get_result[1][2][1].trace.trace_address = <<0>>

\* C10: trace_get with an index list whose length is not 1 returns None as a
\* successful result, whatever the hash, without looking the transaction up.
C10_TraceGetNotOneIndex ==
  (GetDone /\ Len(get_indices) # 1) =>
    /\ get_result[1] = Ok(None)
    /\ tx_lookups = 0

C10_Witness ==
  /\ GetDone
  /\ get_indices = <<0, 1>>
  /\ locate_tx(get_hash) # None
  /\ get_result[1] = Ok(None)
  /\ tx_lookups = 0

ReplayDone == gpc = "done" /\ get_method = "replay_transaction" /\ get_result # None

\* C11: replay_transaction with a hash the transaction index does not know fails
\* with TransactionNotFound (never an empty or default result); with a known hash
\* it never fails with TransactionNotFound, so a collaborator's lookup or
\* execution error is returned as that error.
C11_ReplayUnknownHashNotFound ==
  ReplayDone =>
    /\ get_result[1] = Err(TransactionNotFound)
         => locate_tx(get_hash) = None
    /\ locate_tx(get_hash) = None
         => get_result[1] \in {Err(TransactionNotFound),
                               Err(Internal("spawn_trace_transaction_in_block"))}
    /\ (locate_tx(get_hash) # None /\ ~is_ok(get_result[1]))
         => get_result[1] \in {Err(Internal("spawn_trace_transaction_in_block")),
                               Err(Internal("into_trace_results_with_state"))}

C11_Witness ==
  /\ ReplayDone
  /\ get_hash = UnknownHash
  /\ get_result[1] = Err(TransactionNotFound)

\* C24: the traces an accepted trace_filter collects, before `after` and `count`
\* apply, hold as their reward traces those of the blocks of the range that the
\* store holds and for which Paris is not active, block after block, each kept
\* exactly when the matcher passes its reward action; the reward traces of a
\* pre-Paris block are there whatever the blocks before it added, and none of a
\* block at or after Paris.
C24_FilterRewardsOfPreParisBlocks ==
  FilterOk =>
    SelectSeq(collected_traces, IsReward) =
      Concat([k \in 1..Len(RangeBlocks) |->
                IF PreParis(RangeBlocks[k]) THEN Matching(RewardTracesOf(RangeBlocks[k]))
                ELSE <<>>])

\* a range that runs into Paris: the reward of the block before Paris passes
\* the matcher and is collected, none is collected for the block at Paris
C24_Witness ==
  /\ FilterOk
  /\ chain = "mainnet"
  /\ blocks = <<MainnetParisBlock - 1, MainnetParisBlock>>
  /\ filter.to_address # {}
  /\ Len(SelectSeq(collected_traces, IsReward)) = 1
  /\ SelectSeq(collected_traces, IsReward)[1].block_number = Some(MainnetParisBlock - 1)
  /\ SelectSeq(collected_traces, IsReward)[1].trace.action.reward_type = "Block"

\* the request names a last block above the latest one, a first block that is
\* not, and no more blocks than allowed
EndsAboveLatest ==
  /\ fpc # "idle"
  /\ ~BestBlockFailed
  /\ filter.to_block # None
  /\ FilterStart <= latest
  /\ latest < FilterEnd
  /\ FilterEnd - FilterStart <= max_trace_filter_blocks

\* C27: a trace_filter request with from_block <= latest < to_block and
\* to_block - from_block <= max_trace_filter_blocks is not rejected by the
\* validation of the range: the block store is asked once for the range, one
\* job is created per block it returns, and a result is made of traces of those
\* blocks only.
C27_ToBlockAboveLatestAccepted ==
  EndsAboveLatest =>
    /\ filter_result # None =>
         /\ filter_result[1] # Err(HeaderNotFound)
         /\ ~IsInvalidParams(filter_result[1])
    /\ blocks_loaded = 1
    /\ filter_result # Some(Err(Internal("recovered_block_range"))) =>
         /\ blocks = recovered_block_range(FilterStart, FilterEnd)
         /\ jobs_spawned = Len(blocks)
    /\ \A i \in 1..Len(job_outputs) : job_outputs[i].job \in 1..Len(blocks)
    /\ FilterOk =>
         \A i \in 1..Len(FilterReturned) :
           \E k \in 1..Len(blocks) : FilterReturned[i].block_number = Some(blocks[k])

\* from_block = latest and to_block = latest + 1: the one block of the range
\* that exists is traced and its traces are returned
C27_Witness ==
  /\ EndsAboveLatest
  /\ FilterOk
  /\ filter.from_block = Some(latest)
  /\ filter.to_block = Some(latest + 1)
  /\ blocks = <<latest>>
  /\ jobs_spawned = 1
  /\ Len(job_outputs) = 1
  /\ FilterReturned # <<>>

(***************************************************************************)
(* trace_block while the chain grows: trace_block_with and recovered_block *)
(* resolve the block identifier each on its own, at different times.       *)
(***************************************************************************)
\* the node imports the next block while the request is in flight
BlockImported ==
  /\ bpc = "joining"
  /\ latest <= MaxLatest
  /\ latest' = latest + 1
  /\ UNCHANGED <<chain, filterVars, blockVars, getVars, manyVars, permitVars, opcodeVars,
                 callVars, rawVars, rewardVars>>

BlockImportNext ==
  \/ BlockNext
  \/ BlockImported
SpecBlockImport == BlockInit /\ [][BlockImportNext]_vars

\* C18 as stated: trace_block returns None exactly when the trace run or the
\* block lookup does not find the block, and a list when both find it.
C18_NoneIffEitherLookupFindsNoBlock ==
  BlockOk =>
    (BlockReturned = None <=> (traces_fut[1][2] = None \/ block_fut[1][2] = None))

(***************************************************************************)
(* trace_block and trace_transaction on the same chain.                    *)
(***************************************************************************)
BlockGetNext ==
  \/ BlockNext
  \/ GetNext
SpecBlockGet == BlockInit /\ [][BlockGetNext]_vars

TransactionDone == gpc = "done" /\ get_method = "trace_transaction" /\ get_result # None
\* the request of trace_transaction names a transaction of the block of trace_block
SameBlock ==
  /\ locate_tx(get_hash) # None
  /\ resolve(block_id) = Some(locate_tx(get_hash)[1][1])
OfTransaction(traces, hash) == SelectSeq(traces, LAMBDA t : t.transaction_hash = Some(hash))

\* C12: for a transaction T of a canonical block B, trace_transaction(T.hash) is
\* the sub-sequence of trace_block(B) made of the traces whose transaction_hash
\* is T.hash, in the same order.
C12_TransactionTracesWithinBlockTraces ==
  (BlockOk /\ TransactionDone /\ is_ok(get_result[1]) /\ SameBlock) =>
    /\ BlockReturned # None
    /\ get_result[1][2] = Some(OfTransaction(BlockReturned[1], get_hash))

C12_Witness ==
  /\ BlockOk
  /\ TransactionDone
  /\ SameBlock
  /\ PreParis(resolve(block_id)[1])
  /\ NumTxs(resolve(block_id)[1]) = 2
  /\ is_ok(get_result[1])
  /\ Len(get_result[1][2][1]) = 2
  /\ get_result[1][2][1][1].transaction_position = Some(1)
  /\ Len(BlockReturned[1]) > 4

OpcodeInit == WorldInit /\ AllIdle
OpcodeNext ==
  \/ TraceTransactionOpcodeGas
  \/ TraceBlockOpcodeGas
SpecOpcode == OpcodeInit /\ [][OpcodeNext]_vars

(***************************************************************************)
(* Properties of two identical calls.                                      *)
(***************************************************************************)
OpcodeTwice == opc = "twice" /\ opcode_first # None /\ opcode_second # None
Entries(list) == {list[i] : i \in 1..Len(list)}
\* two TransactionOpcodeGas that differ at most in the order of their entries
SameOpcodeGas(a, b) ==
  /\ a.transaction_hash = b.transaction_hash
  /\ Len(a.opcode_gas) = Len(b.opcode_gas)
  /\ Entries(a.opcode_gas) = Entries(b.opcode_gas)
SameUpToEntryOrder(r1, r2) ==
  IF ~is_ok(r1) \/ ~is_ok(r2) THEN r1 = r2
  ELSE IF r1[2] = None \/ r2[2] = None THEN r1 = r2
  ELSE IF opcode_call.method = "trace_transactionOpcodeGas"
  THEN SameOpcodeGas(r1[2][1], r2[2][1])
  ELSE /\ r1[2][1].block_hash = r2[2][1].block_hash
       /\ r1[2][1].block_number = r2[2][1].block_number
       /\ Len(r1[2][1].transactions) = Len(r2[2][1].transactions)
       /\ \A j \in 1..Len(r1[2][1].transactions) :
            SameOpcodeGas(r1[2][1].transactions[j], r2[2][1].transactions[j])

\* C13 as stated: two identical calls at the same block, the chain unchanged in
\* between, return identical results, the order of the per-opcode entries of
\* trace_transaction_opcode_gas and trace_block_opcode_gas included.
C13_IdenticalCallsIdenticalResults ==
  OpcodeTwice => opcode_second = opcode_first

\* C13 amended: the two results are identical up to the order of the per-opcode
\* entries of each transaction: same error or None, same block hash and number,
\* same transactions in the same order, same set of entries per transaction.
C13_IdenticalUpToOpcodeOrder ==
  OpcodeTwice => SameUpToEntryOrder(opcode_first[1], opcode_second[1])

C13_Witness ==
  /\ OpcodeTwice
  /\ opcode_call.method = "trace_blockOpcodeGas"
  /\ is_ok(opcode_first[1])
  /\ opcode_first[1][2] # None
  /\ Len(opcode_first[1][2][1].transactions) = 2
  /\ opcode_first # opcode_second
  /\ SameUpToEntryOrder(opcode_first[1], opcode_second[1])

ManyInit == WorldFixed /\ AllIdle
ManyNext ==
  \/ TraceCallManyStart
  \/ TraceCallManyStep
  \/ TraceCallManyReturn
SpecMany == ManyInit /\ [][ManyNext]_vars

(***************************************************************************)
(* Properties of trace_call_many.                                          *)
(***************************************************************************)
\* the state a call leaves, from the state it runs against
Effect(state, call) ==
  CASE call.op = "write" -> [state EXCEPT ![call.slot] = WrittenValue]
    [] call.op = "incr" -> [state EXCEPT ![call.slot] = @ + 1]
    [] OTHER -> state
\* the base state with the changes of the first k calls applied in order
RECURSIVE StateAfter(_, _, _)
StateAfter(state, cs, k) ==
  IF k = 0 THEN state ELSE Effect(StateAfter(state, cs, k - 1), cs[k])

\* C4: the overlay against which the k-th call of trace_call_many is executed is
\* the base state with the state changes of the calls before it applied in
\* order, and nothing else; so a call reads what an earlier call wrote.
C4_CallManyOverlay ==
  \A k \in 1..Len(exec_pre) :
    /\ exec_pre[k] = StateAfter(base_state, many_input, k - 1)
    /\ (many_input[k].op = "read" /\ k <= Len(results))
         => results[k].output = StateAfter(base_state, many_input, k - 1)[many_input[k].slot]

C4_Witness ==
  /\ mpc = "done"
  /\ Len(many_input) = 3
  /\ many_input[1].op = "write" /\ many_input[1].slot = "s1"
  /\ many_input[2].op = "incr" /\ many_input[2].slot = "s1"
  /\ many_input[3].op = "read" /\ many_input[3].slot = "s1"
  /\ base_state["s1"] = 0
  /\ many_result # None
  /\ is_ok(many_result[1])
  /\ many_result[1][2][3].output = WrittenValue + 1
  /\ exec_pre[3]["s1"] = WrittenValue + 1
  /\ exec_pre[3]["s2"] = base_state["s2"]

ManyOk == mpc = "done" /\ many_result # None /\ is_ok(many_result[1])
\* what the k-th call returns when it runs after the calls before it
OutputOf(k) ==
  LET pre == StateAfter(base_state, many_input, k - 1)
  IN CASE many_input[k].op = "write" -> 0
       [] many_input[k].op = "incr" -> pre[many_input[k].slot] + 1
       [] OTHER -> pre[many_input[k].slot]

\* C19: a trace_call_many that succeeds on n calls returns n results, and the
\* i-th result is that of the i-th call with the i-th trace types: its trace
\* holds the frame of that call and no other, its output is that call's, and it
\* has a state diff exactly when the i-th trace types ask for one; no call, no result.
C19_CallManyResultsInInputOrder ==
  ManyOk =>
    /\ Len(many_result[1][2]) = Len(many_input)
    /\ \A i \in 1..Len(many_input) :
         /\ many_result[1][2][i].trace =
              <<[op |-> many_input[i].op, slot |-> many_input[i].slot]>>
         /\ many_result[1][2][i].output = OutputOf(i)
         /\ many_result[1][2][i].state_diff # None
              <=> "stateDiff" \in many_input[i].trace_types

C19_Witness ==
  /\ ManyOk
  /\ Len(many_input) = 3
  /\ Len(many_result[1][2]) = 3
  /\ many_input[1].op = "incr" /\ many_input[1].trace_types = {"trace"}
  /\ many_input[2].op = "write" /\ many_input[2].trace_types = {"trace", "stateDiff"}
  /\ many_input[3].op = "read" /\ many_input[3].slot = many_input[2].slot
  /\ many_result[1][2][1].state_diff = None
  /\ many_result[1][2][2].state_diff # None
  /\ many_result[1][2][3].output = WrittenValue

\* C22: in trace_call_many the state diff of call i is built against the overlay
\* as call i found it, before its own changes are committed; the changes of call
\* i are committed exactly when call i produced a result and is not the last
\* call, after result i and before call i+1 executes, so n calls that succeed
\* cause n-1 commits (none for n <= 1); and the pre-value that call i reports
\* for what call i-1 touched is the post-value of call i-1.
C22_CommitAfterResultUnlessLast ==
  LET n == Len(many_input)
      last == Len(many_log)
  IN /\ commits = Cardinality({p \in 1..last : many_log[p][1] = "commit"})
     /\ \A p \in 1..last :
          LET what == many_log[p][1]
              i == many_log[p][2]
          IN /\ what = "commit" => (i < n - 1 /\ many_log[p - 1] = <<"result", i>>)
             /\ what = "result" =>
                  /\ many_log[p - 1] = <<"execute", i>>
                  /\ IF i < n - 1 THEN many_log[p + 1] = <<"commit", i>> ELSE p = last
             /\ (what = "execute" /\ i > 0) => many_log[p - 1] = <<"commit", i - 1>>
     /\ ManyOk => commits = Max(n - 1, 0)
     /\ \A k \in 1..Len(results) :
          results[k].state_diff # None =>
            \A s \in DOMAIN results[k].state_diff[1] :
              LET diff == results[k].state_diff[1][s]
              IN /\ diff.pre = exec_pre[k][s]
                 /\ (k > 1 /\ s = many_input[k - 1].slot) =>
                      /\ diff.pre = Effect(exec_pre[k - 1], many_input[k - 1])[s]
                      /\ results[k - 1].state_diff # None
                           => diff.pre = results[k - 1].state_diff[1][s].post

C22_Witness ==
  /\ ManyOk
  /\ Len(many_input) = 3
  /\ commits = 2
  /\ many_input[1].op = "write" /\ many_input[1].slot = "s1"
  /\ many_input[1].trace_types = {"trace", "stateDiff"}
  /\ many_input[2].op = "incr" /\ many_input[2].slot = "s1"
  /\ many_input[2].trace_types = {"trace", "stateDiff"}
  /\ base_state["s1"] = 0
  /\ results[1].state_diff[1]["s1"] = [pre |-> 0, post |-> WrittenValue]
  /\ results[2].state_diff[1]["s1"] = [pre |-> WrittenValue, post |-> WrittenValue + 1]
  /\ many_log[Len(many_log)] = <<"result", 2>>

\* a turn of the loop ended at one of its `?`
TurnFailed ==
  /\ mpc = "done"
  /\ many_log # <<>>
  /\ many_log[Len(many_log)][1] \in TurnEnds \ {"ok"}

\* C23: when preparing, executing or building the result of call i fails, the
\* request returns that error and no result at all, although i results were
\* produced before, and no call after i is prepared or executed.
C23_CallManyFailureNoPartialResults ==
  TurnFailed =>
    LET how == many_log[Len(many_log)][1]
        i == many_log[Len(many_log)][2]
    IN /\ many_result = Some(Err(Internal(how)))
       /\ Len(results) = i
       /\ Len(exec_pre) <= i + 1
       /\ \A p \in 1..Len(many_log) : many_log[p][2] <= i
       /\ Len(many_log) = 3 * i + (IF how = "prepare_call_env" THEN 1 ELSE 2)

\* the second of three calls executed and the building of its result failed
C23_Witness ==
  /\ TurnFailed
  /\ Len(many_input) = 3
  /\ many_log[Len(many_log)] = <<"into_trace_results_with_state", 1>>
  /\ Len(results) = 1
  /\ Len(exec_pre) = 2
  /\ calls # <<>>
  /\ many_result = Some(Err(Internal("into_trace_results_with_state")))

ManyCallInit ==
  /\ WorldFixed
  /\ FilterIdle /\ BlockIdle /\ GetIdle /\ PermitIdle /\ OpcodeIdle /\ CallIdle
  /\ RawIdle /\ RewardIdle
  /\ ManyRequestIdle
  /\ base_state \in States
ManyCallNext ==
  \/ TraceCallManyStartOf(WritingCallLists, {base_state})
  \/ TraceCallManyStep
  \/ TraceCallManyReturn
  \/ TraceCallManyCancelled
  \/ TraceCall
SpecManyCall == ManyCallInit /\ [][ManyCallNext]_vars

CallOk == cpc = "done" /\ call_result # None /\ is_ok(call_result[1])

\* C20: no step of trace_call_many or trace_call, whether the request succeeds,
\* fails or is cancelled, changes the chain or the state database; and a
\* trace_call made while trace_call_many runs, or after it, sees the state
\* database and nothing of the overlay trace_call_many wrote.
C20_TracingLeavesExternalStateAlone ==
  /\ [][base_state' = base_state /\ chain' = chain /\ latest' = latest]_vars
  /\ [](CallOk =>
          /\ call_result[1][2].output =
               CASE call_request.op = "write" -> 0
                 [] call_request.op = "incr" -> base_state[call_request.slot] + 1
                 [] OTHER -> base_state[call_request.slot]
          /\ call_result[1][2].state_diff # None
               => call_result[1][2].state_diff[1][call_request.slot].pre
                    = base_state[call_request.slot])

C20_Witness ==
  /\ CallOk
  /\ commits > 0
  /\ call_request.op = "read"
  /\ call_request.slot \in DOMAIN call_overlay
  /\ call_overlay[call_request.slot] # base_state[call_request.slot]
  /\ call_result[1][2].output = base_state[call_request.slot]
  /\ call_result[1][2].state_diff[1][call_request.slot].pre = base_state[call_request.slot]

PermitInit == WorldFixed /\ AllIdle
PermitNext ==
  \E c \in Clients :
    \/ HandlerCall(c)
    \/ acquire_trace_permit(c)
    \/ HandlerReturn(c)
SpecPermit == PermitInit /\ [][PermitNext]_vars

(***************************************************************************)
(* Properties of the permit gate.                                          *)
(***************************************************************************)
\* C1: every RPC handler acquires a permit before it starts any tracing work and
\* holds it until it returns: a handler at work holds a permit.
C1_EveryHandlerHoldsPermit ==
  \A c \in Clients : hpc[c] = "working" => permit[c]

Holders == {c \in Clients : permit[c]}

\* C16: at most max_concurrent_tracing_calls handlers hold a permit; the permits
\* held and the permits left add up to the capacity; a handler that has returned
\* (with a value, None or an error) holds none, so with no handler in flight every
\* permit is available again.
C16_PermitsBoundedAndReleased ==
  /\ Cardinality(Holders) <= max_concurrent_tracing_calls
  /\ available >= 0
  /\ available + Cardinality(Holders) = max_concurrent_tracing_calls
  /\ \A c \in Clients : hpc[c] # "working" => ~permit[c]
  /\ (\A c \in Clients : hpc[c] = "idle") => available = max_concurrent_tracing_calls

C16_Witness ==
  /\ \A c \in Clients : hpc[c] = "idle"
  /\ outcome = <<"error", TRUE>>
  /\ available = max_concurrent_tracing_calls

\* the scheduling the claim assumes: a permit that is free is handed to the
\* oldest waiter, and a handler at work returns
PermitFairness ==
  \A c \in Clients : WF_vars(acquire_trace_permit(c)) /\ WF_vars(HandlerReturn(c))
\* the clients call a gated method and the method that is not gated
FairMethods == {"trace_block", "trace_filter"}
PermitFairNext ==
  \E c \in Clients :
    \/ HandlerCallOf(c, FairMethods)
    \/ acquire_trace_permit(c)
    \/ HandlerReturn(c)
SpecPermitFair == PermitInit /\ [][PermitFairNext]_vars /\ PermitFairness

\* C17: a gated handler called while every permit is taken does not fail for
\* that: from acquire_owned it goes nowhere but to its own work, it holds no
\* permit and does no work while it waits, and it eventually gets a permit and runs.
C17_WaitingHandlerEventuallyRuns ==
  /\ [][\A c \in Clients :
          hpc[c] = "acquiring" =>
            /\ ~permit[c]
            /\ hpc'[c] = "acquiring" \/ (hpc'[c] = "working" /\ permit'[c])]_vars
  /\ \A c \in Clients :
       (hpc[c] = "acquiring" /\ available = 0) ~> (hpc[c] = "working" /\ permit[c])

C17_Witness ==
  \E c \in Clients :
    /\ hpc[c] = "working"
    /\ permit[c]
    /\ waited[c]
    /\ method[c] = "trace_block"

RawInit == WorldInit /\ AllIdle
RawNext ==
  \/ TraceRawTransactionStart
  \/ TraceRawTransactionEnv
  \/ TraceRawTransactionFinish
SpecRaw == RawInit /\ [][RawNext]_vars

(***************************************************************************)
(* Properties of trace_raw_transaction.                                    *)
(***************************************************************************)
\* the raw bytes do not decode into a signed transaction with a recoverable sender
NoRecoverableTransaction(data) ==
  \/ decode_2718(data) = None
  \/ recover_signer(decode_2718(data)[1]) = None

\* C21: once trace_raw_transaction was called with raw bytes that do not decode
\* into a signed transaction with a recoverable sender, it has returned an
\* invalid-params error, and it has neither asked for the environment at the
\* block (evm_env_at, which resolves the block) nor spawned an execution.
C21_RawUndecodableFailsFirst ==
  (rpc # "idle" /\ NoRecoverableTransaction(raw_tx)) =>
    /\ rpc = "done"
    /\ raw_result # None
    /\ IsInvalidParams(raw_result[1])
    /\ raw_env_calls = 0
    /\ raw_executions = 0

\* a transaction that decodes but whose signature recovers to no sender, sent
\* for a block that does not exist, was refused as invalid params
C21_Witness ==
  /\ rpc = "done"
  /\ decode_2718(raw_tx) # None
  /\ NoRecoverableTransaction(raw_tx)
  /\ raw_block_id # None
  /\ resolve(raw_block_id[1]) = None
  /\ raw_result = Some(Err(InvalidTransactionSignature))

RewardInit == WorldFixed /\ AllIdle
RewardNext == ExtractRewardTraces
SpecReward == RewardInit /\ [][RewardNext]_vars

(***************************************************************************)
(* Properties of extract_reward_traces.                                    *)
(***************************************************************************)
RewardDone == wpc = "done"
RewardOmmers == IF reward_ommers = None THEN <<>> ELSE reward_ommers[1]

\* C25: extract_reward_traces for a header with k ommers returns k+1 traces:
\* the Block reward of the header's beneficiary, then one Uncle reward per
\* ommer, in the ommers' order, each of its ommer's beneficiary; every trace
\* carries the hash and number of the including block, no transaction hash or
\* position, an empty trace address, no subtraces, no result and no error.
\* Without an ommer list it returns the Block reward alone.
C25_RewardTracesShape ==
  RewardDone =>
    LET k == Len(RewardOmmers)
    IN /\ Len(reward_traces) = k + 1
       /\ reward_traces[1].trace.action.reward_type = "Block"
       /\ reward_traces[1].trace.action.author = reward_header.beneficiary
       /\ \A u \in 1..k :
            /\ reward_traces[u + 1].trace.action.reward_type = "Uncle"
            /\ reward_traces[u + 1].trace.action.author = RewardOmmers[u].beneficiary
       /\ \A p \in 1..(k + 1) :
            /\ reward_traces[p].block_hash = Some(reward_header.hash)
            /\ reward_traces[p].block_number = Some(reward_header.number)
            /\ reward_traces[p].transaction_hash = None
            /\ reward_traces[p].transaction_position = None
            /\ reward_traces[p].trace.action.type = "reward"
            /\ reward_traces[p].trace.trace_address = <<>>
            /\ reward_traces[p].trace.subtraces = 0
            /\ reward_traces[p].trace.result = None
            /\ reward_traces[p].trace.error = None
       /\ reward_ommers = None => Len(reward_traces) = 1

\* two ommers of different beneficiaries, neither the header's
C25_Witness ==
  /\ RewardDone
  /\ Len(RewardOmmers) = 2
  /\ RewardOmmers[1].beneficiary # RewardOmmers[2].beneficiary
  /\ RewardOmmers[1].beneficiary # reward_header.beneficiary
  /\ RewardOmmers[2].beneficiary # reward_header.beneficiary
  /\ Len(reward_traces) = 3
  /\ reward_traces[3].trace.action.author = RewardOmmers[2].beneficiary

\* C26: with base reward `base` of a chain and k ommers, the value of the
\* Block reward is base + base * k / 32, and the value of the Uncle reward of
\* an ommer d blocks older than the block, d in 1..6, is base * (8 - d) / 8;
\* neither the results nor the products they are made of reach the width at
\* which the arithmetic wraps.
C26_RewardValues ==
  RewardDone =>
    LET k == Len(RewardOmmers)
    IN /\ reward_traces[1].trace.action.value = reward_base + (reward_base * k) \div 32
       /\ reward_base + reward_base * k < U128Wrap
       /\ \A u \in 1..k :
            LET d == reward_header.number - RewardOmmers[u].number
            IN d \in 1..6 =>
                 /\ reward_traces[u + 1].trace.action.value = (reward_base * (8 - d)) \div 8
                 /\ reward_base * (8 - d) < U128Wrap

\* the largest base reward, an ommer one block older and one six blocks older
C26_Witness ==
  /\ RewardDone
  /\ reward_base = 5 * WeiPerEth
  /\ Len(RewardOmmers) = 2
  /\ reward_header.number - RewardOmmers[1].number = 1
  /\ reward_header.number - RewardOmmers[2].number = 6
  /\ reward_traces[1].trace.action.value = 5 * WeiPerEth + (5 * WeiPerEth) \div 16
  /\ reward_traces[2].trace.action.value = 35 * (WeiPerEth \div 8)
  /\ reward_traces[3].trace.action.value = 10 * (WeiPerEth \div 8)

====
